---- MODULE Spec2Model ----
(***************************************************************************)
(* Verification model of wxlib.                                            *)
(*                                                                         *)
(* Part I  : matchit  (pattern matching engine, matchit/matchit.hpp)       *)
(* Part II : msgpack  (Packer / Unpacker, msgpack/msgpack.hpp)             *)
(*                                                                         *)
(* Each part has state machines of its own (SpecMatch; SpecPack, SpecInt,  *)
(* SpecLen); the variables of the other part stay at their initial values. *)
(***************************************************************************)
EXTENDS Integers, Sequences, FiniteSets, TLC

VARIABLES
  \* ---- matchit ----
  ids,        \* Id<T>::Block of every identifier: [has, val, depth]
  stack,      \* active match_pattern invocations, innermost last
  ret,        \* result returned by the match_pattern call that ended last
  pc,         \* position inside match_patterns: "idle", "arms", "eval", "done"
  subject,    \* the value handed to match(...)
  arms,       \* the PatternPairs handed to match(...)(...)
  mode,       \* "expr" (handlers return a value) or "stmt" (void)
  armIdx,     \* index of the arm being tried
  calls,      \* number of match calls started so far
  tried,      \* history: results of the arms tried in the current call
  handlers,   \* history: arms whose handler ran in the current call
  seen,       \* history: the identifier blocks the handler observed
  rootHist,   \* history: hist of the arm's outermost pattern when it returned
  outcome,    \* history: how the current call ended
  last,       \* history: the match_pattern call that returned last
  \* ---- msgpack ----
  input,      \* the fields the caller hands to the Packer, in order
  pk,         \* Packer: [buf (m_serialized_object), ec]
  sent,       \* history: the Packer after each field it packed
  up,         \* Unpacker: [data, pos (m_begin - start), ec, rd (history)]
  upSrc,      \* how the Unpacker's buffer was made: "none", "full", "prefix", "raw"
  got,        \* the fields unpacked so far: [ty, val]
  \* ---- mio::StringReader ----
  file,       \* the bytes of the mapped file
  parts,      \* the partitions handed to the workers: [first, second), offsets
  workers,    \* async_getline_impl per worker: [l_begin, l_find, l_counter, st]
  log,        \* history: the callback invocations, in order: [tid, b, e, rc]
  loaded      \* what async_getline returned; -1 before it returns

mvars == <<ids, stack, ret, pc, subject, arms, mode, armIdx, calls,
           tried, handlers, seen, rootHist, outcome, last>>

pvars == <<input, pk, sent, up, upSrc, got>>

rvars == <<file, parts, workers, log, loaded>>

\* no file is being loaded
InitReaderIdle ==
  file = <<>> /\ parts = <<>> /\ workers = <<>> /\ log = <<>> /\ loaded = -1

(***************************************************************************)
(*                          Part I : matchit                               *)
(***************************************************************************)

\* ---- bounds -----------------------------------------------------------
MaxCalls == 2      \* match calls made one after the other on the same Ids
MaxArms  == 2      \* arms of one match call
MaxLen   == 3      \* elements of the subject of a Ds

\* ---- identifiers ------------------------------------------------------
NumIds == 2
IdSet  == 1..NumIds
X      == 1        \* Id<int32_t>
SUB    == 2        \* Id<SubrangeT<..>> : the identifier of a rest binder
NoVal  == -1       \* "this identifier was not bound" in the history fields

\* Id<T>::Block{} : empty variant, m_depth value-initialised to 0
EmptyBlock == [has |-> FALSE, val |-> 0, depth |-> 0]

\* Id::Block::has_value
has_value(b) == b.has

\* reset as it would be with the bound  m_depth - depth > 0
reset_strict(b, depth) ==
  IF b.depth - depth > 0
    THEN [has |-> FALSE, val |-> 0, depth |-> depth]
    ELSE b

\* Id::Block::reset
reset(b, depth) ==
  IF b.depth - depth >= 0
    THEN [has |-> FALSE, val |-> 0, depth |-> depth]
    ELSE b

\* confirm as it would be if it tested for a held value instead of m_depth == 0
confirm_when_unset(b, depth) ==
  IF b.depth > depth \/ ~b.has
    THEN [b EXCEPT !.depth = depth]
    ELSE b

\* Id::Block::confirm
confirm(b, depth) ==
  IF b.depth > depth \/ b.depth = 0
    THEN [b EXCEPT !.depth = depth]
    ELSE b

\* match_value as it would be if it bound the value in every case
match_value_rebind(b, v) ==
  [res |-> TRUE, blk |-> [b EXCEPT !.has = TRUE, !.val = v], bound |-> TRUE]

\* Id::match_value : compare when a value is held, bind otherwise
match_value(b, v) ==
  IF has_value(b)
    THEN [res |-> (b.val = v), blk |-> b, bound |-> FALSE]
    ELSE [res |-> TRUE, blk |-> [b EXCEPT !.has = TRUE, !.val = v],
          bound |-> TRUE]

\* ---- patterns ---------------------------------------------------------
\* A pattern is a record [k, a, ps]: kind, integer parameter, sub-patterns.
Pat(k, a, ps) == [k |-> k, a |-> a, ps |-> ps]

IdP(n)     == Pat("id", n, <<>>)        \* Id<T>
Lit(v)     == Pat("lit", v, <<>>)       \* a plain value used as a pattern
Wild       == Pat("wild", 0, <<>>)      \* Wildcard _
Meet(f)    == Pat("meet", f, <<>>)      \* Meet<P>
Or(ps)     == Pat("or", 0, ps)          \* or_(...)
And(ps)    == Pat("and", 0, ps)         \* and_(...)
Not(p)     == Pat("not", 0, <<p>>)      \* not_(p)
App(f, p)  == Pat("app", f, <<p>>)      \* app(unary, p)
When(p, f) == Pat("when", f, <<p>>)     \* p | when(pred) : PostCheck
Ds(ps)     == Pat("ds", 0, ps)          \* ds(...)
Ooo        == Pat("ooo", 0, <<>>)       \* ooo
OooBinder(n) == Pat("ooobinder", 0, <<IdP(n)>>)   \* id.at(ooo)

LeafKinds == {"id", "lit", "wild", "meet", "ooo"}

\* unary functions handed to app(...)
HALVE == 1                               \* _ / 2
invoke_(f, v) == IF f = HALVE THEN v \div 2 ELSE v

\* predicates handed to meet(...)
NEVER == 1                               \* a predicate that is false
IS_TEN == 2                              \* _ == 10
meet_pred(f, v) == IF f = NEVER THEN FALSE ELSE v = 10

\* predicates handed to when(...): closures over the identifier X
X_IS_FIVE == 1                           \* x == 5
X_IS_TEN  == 2                           \* x == 10
check(f, blocks) == blocks[X].val = (IF f = X_IS_FIVE THEN 5 ELSE 10)

\* ---- process_id --------------------------------------------------------
CANCEL  == 0      \* IdProcess::kCancel
CONFIRM == 1      \* IdProcess::kConfirm

RECURSIVE process_id(_, _, _, _)
RECURSIVE process_id_each(_, _, _, _, _)

\* process_id_impl of Id as it would be with the switch falling through
\* from kConfirm into kCancel
process_id_Id_fallthrough(p, depth, proc, blocks) ==
  [blocks EXCEPT ![p.a] = IF proc = CANCEL THEN reset(@, depth)
                                           ELSE reset(confirm(@, depth), depth)]

\* PatternTraits<Id<T>>::process_id_impl
process_id_Id(p, depth, proc, blocks) ==
  [blocks EXCEPT ![p.a] = IF proc = CANCEL THEN reset(@, depth)
                                           ELSE confirm(@, depth)]

\* the fold (process_id(a_patterns, depth, id_process), ...) of Or, And and Ds
process_id_each(ps, i, depth, proc, blocks) ==
  IF i > Len(ps) THEN blocks
  ELSE process_id_each(ps, i + 1, depth, proc,
                       process_id(ps[i], depth, proc, blocks))

\* process_id as it would be if PostCheck had no process_id_impl of its own
process_id_no_PostCheck(p, depth, proc, blocks) ==
  CASE p.k = "id"                   -> process_id_Id(p, depth, proc, blocks)
    [] p.k \in {"or", "and", "ds"}  -> process_id_each(p.ps, 1, depth, proc, blocks)
    [] p.k \in {"not", "app", "ooobinder"} -> process_id(p.ps[1], depth, proc, blocks)
    [] OTHER                        -> blocks

\* process_id : dispatch to PatternTraits<T>::process_id_impl
process_id(p, depth, proc, blocks) ==
  CASE p.k = "id"                   -> process_id_Id(p, depth, proc, blocks)
    [] p.k \in {"or", "and", "ds"}  -> process_id_each(p.ps, 1, depth, proc, blocks)
    [] p.k \in {"not", "app", "when", "ooobinder"} ->
                                       process_id(p.ps[1], depth, proc, blocks)
    [] OTHER                        -> blocks

\* PatternTraits<PatternPair<..>> has no specialisation: the generic
\* PatternTraits<T>::process_id_impl is used, whose body is empty.
process_id_PatternPair(arm, depth, proc, blocks) == blocks

\* identifiers occurring in a pattern
RECURSIVE IdsOf(_)
IdsOf(p) ==
  IF p.k = "id" THEN {p.a}
  ELSE UNION {IdsOf(p.ps[i]) : i \in 1..Len(p.ps)}

\* ---- the patterns and subjects the model draws from ---------------------
Subjects == {10, 5}

F  == Meet(NEVER)                        \* a pattern that never matches
Xp == IdP(X)

Units    == {Xp, Not(Xp), F, App(HALVE, Xp)}
Conjs    == {And(<<p, q>>) : p \in Units, q \in Units}
Alts     == Units \cup Conjs \cup {Wild, Lit(5), Meet(IS_TEN)}
CoreAlts == {Xp, App(HALVE, Xp), And(<<Xp, F>>), And(<<Not(Xp), Xp>>),
             And(<<App(HALVE, Xp), F>>)}
Ors      == {Or(<<a, b>>) : a \in CoreAlts \cup {F, Not(Xp), Wild},
                             b \in CoreAlts \cup {F, Not(Xp), Wild}}
NestedOrs ==
  {Or(<<a, Or(<<b, c>>)>>) : a \in CoreAlts, b \in CoreAlts, c \in CoreAlts}
  \cup {Or(<<Or(<<a, b>>), c>>) : a \in CoreAlts, b \in CoreAlts, c \in CoreAlts}
Wrapped  ==
  {And(<<Xp, Or(<<a, b>>)>>) : a \in CoreAlts, b \in CoreAlts}
  \cup {And(<<Or(<<a, b>>), Xp>>) : a \in CoreAlts, b \in CoreAlts}
  \cup {App(HALVE, Or(<<a, b>>)) : a \in CoreAlts, b \in CoreAlts}
  \cup {Not(Or(<<a, b>>)) : a \in CoreAlts, b \in CoreAlts}
  \cup {Or(<<a, b, App(HALVE, Xp)>>) : a \in CoreAlts, b \in CoreAlts}

\* arms  pattern | p | when(pred)  whose p binds x whenever it matches
Whens ==
  {When(p, f) : p \in {Xp, App(HALVE, Xp), And(<<Xp, Meet(IS_TEN)>>),
                       Or(<<And(<<Xp, F>>), App(HALVE, Xp)>>)},
                f \in {X_IS_FIVE, X_IS_TEN}}

FirstArms == Alts \cup Ors \cup NestedOrs \cup Wrapped \cup Whens
LaterArms == {Wild, Xp}

RECURSIVE LaterLists(_)
LaterLists(n) ==
  IF n = 0 THEN {<<>>}
  ELSE LaterLists(n - 1)
       \cup {Append(l, q) : l \in {m \in LaterLists(n - 1) : Len(m) = n - 1},
                            q \in LaterArms}

\* an arm list: any first arm, followed by at most MaxArms-1 simple arms
ArmLists == {<<p>> \o l : p \in FirstArms, l \in LaterLists(MaxArms - 1)}
Modes    == {"expr", "stmt"}

\* ---- frames of match_pattern -------------------------------------------
\* i    : number of sub-patterns whose match_pattern call has returned
\* hist : history, one entry per sub-pattern started: for every identifier
\*        the value last bound to it while that sub-pattern was matched
NoBinds == [n \in IdSet |-> NoVal]
\* res  : history, the results of the sub-patterns that have returned
Frame(p, depth, v) ==
  [pat |-> p, depth |-> depth, value |-> v, i |-> 0, hist |-> <<>>, res |-> <<>>]

Top == stack[Len(stack)]

\* the caller resumes: one more of its sub-patterns has returned
Return(stk, result) ==
  LET rest == SubSeq(stk, 1, Len(stk) - 1)
  IN IF rest = <<>> THEN rest
     ELSE [rest EXCEPT ![Len(rest)].i = @ + 1,
                       ![Len(rest)].res = Append(@, result)]

\* history only: no match_pattern call has just returned
NoLast ==
  [pat |-> Wild, depth |-> -1, proc |-> -1, res |-> FALSE, value |-> 0,
   pre |-> [n \in IdSet |-> EmptyBlock], before |-> [n \in IdSet |-> EmptyBlock],
   hist |-> <<>>, cres |-> <<>>, pred |-> "none"]

\* history only: remember in every active frame that n was bound to v
note_bind(stk, n, v) ==
  [j \in 1..Len(stk) |->
     IF stk[j].hist = <<>> THEN stk[j]
     ELSE [stk[j] EXCEPT !.hist[Len(stk[j].hist)][n] = v]]

\* the call match_pattern(value, child, depth, context) made by Top
CallChildAt(child, v, depth) ==
  /\ stack' = Append([stack EXCEPT ![Len(stack)].hist = Append(@, NoBinds)],
                     Frame(child, depth, v))
  /\ ret' = FALSE /\ last' = NoLast
  /\ UNCHANGED <<ids, rootHist>>

\* the call match_pattern(value, child, depth + 1, context) made by Top
CallChild(child, v) == CallChildAt(child, v, Top.depth + 1)

\* match_pattern : the tail shared by every pattern kind.  result is what
\* match_pattern_impl returned; process_id runs with Confirm or Cancel and
\* the result goes back to the caller.
\* pred tells whether the predicate of a PostCheck was evaluated, and to what.
match_pattern(result, blocks, stk, pred) ==
  /\ ids' = process_id(Top.pat, Top.depth,
                       IF result THEN CONFIRM ELSE CANCEL, blocks)
  /\ stack' = Return(stk, result)
  /\ ret' = result
  /\ rootHist' = IF Len(stk) = 1 THEN stk[1].hist ELSE rootHist
  /\ last' = [pat |-> Top.pat, depth |-> Top.depth,
              proc |-> IF result THEN CONFIRM ELSE CANCEL, res |-> result,
              value |-> Top.value, pre |-> ids, before |-> blocks,
              hist |-> stk[Len(stk)].hist, cres |-> Top.res, pred |-> pred]

call_vars == <<pc, subject, arms, mode, armIdx, calls, tried, handlers, seen, outcome, pvars, rvars>>

\* match_pattern on Id, a literal, Wildcard, Meet or Ooo
match_pattern_leaf ==
  /\ pc = "eval" /\ stack # <<>> /\ Top.pat.k \in LeafKinds
  /\ LET p == Top.pat
         v == Top.value
     IN CASE p.k = "id" ->
               LET mv == match_value(ids[p.a], v)
               IN match_pattern(mv.res, [ids EXCEPT ![p.a] = mv.blk],
                                IF mv.bound THEN note_bind(stack, p.a, v) ELSE stack, "none")
          [] p.k = "lit"  -> match_pattern(p.a = v, ids, stack, "none")
          [] p.k = "wild" -> match_pattern(TRUE, ids, stack, "none")
          [] p.k = "ooo"  -> match_pattern(TRUE, ids, stack, "none")
          [] p.k = "meet" -> match_pattern(meet_pred(p.a, v), ids, stack, "none")
  /\ UNCHANGED call_vars

\* PatternTraits<Or<Ts...>>::match_pattern_impl : left to right, || short-circuit
match_pattern_Or ==
  /\ pc = "eval" /\ stack # <<>> /\ Top.pat.k = "or"
  /\ IF Top.i = 0 \/ (~ret /\ Top.i < Len(Top.pat.ps))
       THEN CallChild(Top.pat.ps[Top.i + 1], Top.value)
       ELSE match_pattern(ret, ids, stack, "none")
  /\ UNCHANGED call_vars

\* And as it would be if every sub-pattern were evaluated
match_pattern_And_no_short_circuit ==
  /\ pc = "eval" /\ stack # <<>> /\ Top.pat.k = "and"
  /\ IF Top.i < Len(Top.pat.ps)
       THEN CallChild(Top.pat.ps[Top.i + 1], Top.value)
       ELSE match_pattern(\A k \in 1..Len(Top.res) : Top.res[k], ids, stack, "none")
  /\ UNCHANGED call_vars

\* PatternTraits<And<Ts...>>::match_pattern_impl : left to right, && short-circuit
match_pattern_And ==
  /\ pc = "eval" /\ stack # <<>> /\ Top.pat.k = "and"
  /\ IF Top.i = 0 \/ (ret /\ Top.i < Len(Top.pat.ps))
       THEN CallChild(Top.pat.ps[Top.i + 1], Top.value)
       ELSE match_pattern(ret, ids, stack, "none")
  /\ UNCHANGED call_vars

\* PatternTraits<Not<T>>::match_pattern_impl
match_pattern_Not ==
  /\ pc = "eval" /\ stack # <<>> /\ Top.pat.k = "not"
  /\ IF Top.i = 0
       THEN CallChild(Top.pat.ps[1], Top.value)
       ELSE match_pattern(~ret, ids, stack, "none")
  /\ UNCHANGED call_vars

\* App as it would be if it matched its sub-pattern two levels down
match_pattern_App_deeper ==
  /\ pc = "eval" /\ stack # <<>> /\ Top.pat.k = "app"
  /\ IF Top.i = 0
       THEN CallChildAt(Top.pat.ps[1], invoke_(Top.pat.a, Top.value), Top.depth + 2)
       ELSE match_pattern(ret, ids, stack, "none")
  /\ UNCHANGED call_vars

\* PatternTraits<App<UnaryT, PatternT>>::match_pattern_impl
match_pattern_App ==
  /\ pc = "eval" /\ stack # <<>> /\ Top.pat.k = "app"
  /\ IF Top.i = 0
       THEN CallChild(Top.pat.ps[1], invoke_(Top.pat.a, Top.value))
       ELSE match_pattern(ret, ids, stack, "none")
  /\ UNCHANGED call_vars

\* PatternTraits<PostCheck<T, P>>::match_pattern_impl :
\* match_pattern(value, pattern, depth + 1) && post_check.check()
match_pattern_PostCheck ==
  /\ pc = "eval" /\ stack # <<>> /\ Top.pat.k = "when"
  /\ IF Top.i = 0
       THEN CallChild(Top.pat.ps[1], Top.value)
       ELSE match_pattern(ret /\ check(Top.pat.a, ids), ids, stack,
                          IF ~ret THEN "none"
                          ELSE IF check(Top.pat.a, ids) THEN "true" ELSE "false")
  /\ UNCHANGED call_vars

\* ---- Ds : destructuring -------------------------------------------------
\* The subject of a Ds is a record: tuplelike tells a std::array (matched by
\* the is_tuplelike_v overload, lengths known to the compiler) from a
\* std::vector (matched by the range overload); elems are its elements.
Range(t, es) == [tuplelike |-> t, elems |-> es]

\* find_ooo_idx, counted from 1; 0 when the Ds has no Ooo and no OooBinder
find_ooo_idx(ps) ==
  IF \E i \in 1..Len(ps) : ps[i].k \in {"ooo", "ooobinder"}
    THEN CHOOSE i \in 1..Len(ps) : ps[i].k \in {"ooo", "ooobinder"}
    ELSE 0

\* the calls of a Ds as they would be with a rest range one element shorter
DsCalls_short_rest(p, v, depth) ==
  LET ps  == p.ps
      n   == Len(ps)
      len == Len(v.elems)
      k   == find_ooo_idx(ps)
      call(q, x, d) == [pat |-> q, value |-> x, depth |-> d]
      range_size == len - n
      make_subrange == [size  |-> range_size,
                        elems |-> SubSeq(v.elems, k, k + range_size - 1)]
  IN IF k = 0
       THEN [i \in 1..n |-> call(ps[i], v.elems[i], depth + 1)]
       ELSE [i \in 1..(k - 1) |-> call(ps[i], v.elems[i], depth + 1)]
            \o (IF ps[k].k = "ooobinder"
                  THEN <<call(ps[k], make_subrange, depth)>> ELSE <<>>)
            \o [j \in 1..(n - k) |->
                  call(ps[k + j], v.elems[len - n + k + j], depth + 1)]

\* PatternTraits<Ds<Ts...>>::match_pattern_impl : the match_pattern calls it
\* makes when no && before them is false, in order.  Without a rest marker
\* the elements are matched one by one at depth + 1.  With a rest marker at
\* k the patterns before it take the first elements, an OooBinder is
\* matched at depth (not depth + 1) against the sub-range of
\* range_size = val_len - (pat_len - 1) elements that starts at k, a bare
\* Ooo is not matched at all, and the patterns after it take the elements
\* from val_len - pat_len + k + 1 on.  A sub-range is [size, elems]: size is
\* end - begin, which is negative when the subject is too short.
DsCalls(p, v, depth) ==
  LET ps  == p.ps
      n   == Len(ps)
      len == Len(v.elems)
      k   == find_ooo_idx(ps)
      call(q, x, d) == [pat |-> q, value |-> x, depth |-> d]
      range_size == len - (n - 1)
      make_subrange == [size  |-> range_size,
                        elems |-> SubSeq(v.elems, k, k + range_size - 1)]
  IN IF k = 0
       THEN [i \in 1..n |-> call(ps[i], v.elems[i], depth + 1)]
       ELSE [i \in 1..(k - 1) |-> call(ps[i], v.elems[i], depth + 1)]
            \o (IF ps[k].k = "ooobinder"
                  THEN <<call(ps[k], make_subrange, depth)>> ELSE <<>>)
            \o [j \in 1..(n - k) |->
                  call(ps[k + j], v.elems[len - n + k + j], depth + 1)]

\* PatternTraits<Ds<Ts...>>::match_pattern_impl.  Only the range overload
\* looks at the length of the subject; for a tuple-like subject the lengths
\* are template arguments and nothing is tested when the program runs.
match_pattern_Ds ==
  /\ pc = "eval" /\ stack # <<>> /\ Top.pat.k = "ds"
  /\ LET n   == Len(Top.pat.ps)
         len == Len(Top.value.elems)
         k   == find_ooo_idx(Top.pat.ps)
         cs  == DsCalls(Top.pat, Top.value, Top.depth)
     IN IF ~Top.value.tuplelike /\ (IF k = 0 THEN len # n ELSE len < n - 1)
          THEN match_pattern(FALSE, ids, stack, "none")
        ELSE IF Top.i < Len(cs) /\ (Top.i = 0 \/ ret)
          THEN CallChildAt(cs[Top.i + 1].pat, cs[Top.i + 1].value, cs[Top.i + 1].depth)
        ELSE match_pattern(Top.i = 0 \/ ret, ids, stack, "none")
  /\ UNCHANGED call_vars

\* OooBinder as it would be if its result went back to the Ds directly,
\* without the process_id of match_pattern
match_pattern_OooBinder_unprocessed ==
  /\ pc = "eval" /\ stack # <<>> /\ Top.pat.k = "ooobinder"
  /\ IF Top.i = 0
       THEN CallChild(Top.pat.ps[1], Top.value)
       ELSE /\ stack' = Return(stack, ret)
            /\ last' = NoLast
            /\ UNCHANGED <<ids, ret, rootHist>>
  /\ UNCHANGED call_vars

\* PatternTraits<OooBinder<T>>::match_pattern_impl
match_pattern_OooBinder ==
  /\ pc = "eval" /\ stack # <<>> /\ Top.pat.k = "ooobinder"
  /\ IF Top.i = 0
       THEN CallChild(Top.pat.ps[1], Top.value)
       ELSE match_pattern(ret, ids, stack, "none")
  /\ UNCHANGED call_vars

\* what the compiler accepts: a Ds without rest marker needs a tuple-like
\* subject of its own length (static_assert on the pack sizes); with a rest
\* marker at k every std::get index must exist, that is
\* val_len >= k - 1 and val_len >= pat_len - k.  Ranges always compile.
RECURSIVE Compiles(_, _)
Compiles(p, v) ==
  IF p.k = "ds"
    THEN LET n == Len(p.ps)
             len == Len(v.elems)
             k == find_ooo_idx(p.ps)
         IN v.tuplelike =>
              IF k = 0 THEN len = n ELSE len >= k - 1 /\ len >= n - k
    ELSE \A i \in 1..Len(p.ps) : Compiles(p.ps[i], v)

\* the subjects of the destructuring tests: arrays and vectors of 5s and 10s
DsSubjects ==
  {Range(t, es) : t \in BOOLEAN,
                  es \in UNION {[1..n -> Subjects] : n \in 0..MaxLen}}

\* the patterns of the destructuring tests
DsArms ==
  LET E  == {Lit(5), Wild, Xp, Not(Xp), App(HALVE, Xp),
             Or(<<And(<<Xp, F>>), Xp>>)}
      E2 == {Lit(5), Xp}
      R  == {Ooo, OooBinder(SUB)}
  IN {Ds(<<>>), Ooo}
     \cup {Ds(<<a>>) : a \in E \cup R}
     \cup {Ds(<<a, b>>) : a \in E, b \in E}
     \cup {Ds(<<r, a>>) : r \in R, a \in E}
     \cup {Ds(<<a, r>>) : r \in R, a \in E}
     \cup UNION {{Ds(<<r, a, b>>), Ds(<<a, r, b>>), Ds(<<a, b, r>>)} :
                   r \in R, a \in E2, b \in E2}
     \cup {Or(<<Ds(<<Xp, OooBinder(SUB), Lit(5)>>), Ds(<<OooBinder(SUB), Xp>>)>>),
           And(<<Ds(<<Ooo, Xp>>), Ds(<<OooBinder(SUB), Lit(10)>>)>>),
           Not(Ds(<<Xp, Ooo>>)),
           When(Ds(<<Xp, OooBinder(SUB)>>), X_IS_FIVE)}

\* Id<SubrangeT<..>> subrange; match(range)(pattern | ds(..) = [&] {..}, ..) :
\* the identifier of the rest binder is declared for this call (it points
\* into the Context of the arm, which ends with the call); x lives on.
match_patterns_Ds ==
  /\ pc = "idle" /\ calls < MaxCalls
  /\ \E s \in DsSubjects, p \in DsArms, l \in {<<>>, <<Wild>>} :
       /\ Compiles(p, s)
       /\ subject' = s /\ arms' = <<p>> \o l
  /\ mode' = "stmt"
  /\ ids' = [ids EXCEPT ![SUB] = EmptyBlock]
  /\ armIdx' = 1 /\ calls' = calls + 1 /\ pc' = "arms"
  /\ UNCHANGED <<stack, ret, tried, handlers, seen, rootHist, outcome, last, pvars, rvars>>

\* match(value)(arms...) : entry of match_patterns
match_patterns ==
  /\ pc = "idle" /\ calls < MaxCalls
  /\ \E s \in Subjects, as \in ArmLists, m \in Modes :
       /\ subject' = s /\ arms' = as /\ mode' = m
  /\ armIdx' = 1 /\ calls' = calls + 1 /\ pc' = "arms"
  /\ UNCHANGED <<ids, stack, ret, tried, handlers, seen, rootHist, outcome, last, pvars, rvars>>

\* PatternPair::match_value : match_pattern(value, m_pattern, /*depth*/ 0, context)
PatternPair_match_value ==
  /\ pc = "arms" /\ armIdx <= Len(arms)
  /\ stack' = <<Frame(arms[armIdx], 0, subject)>>
  /\ pc' = "eval" /\ ret' = FALSE /\ rootHist' = <<>> /\ last' = NoLast
  /\ UNCHANGED <<ids, subject, arms, mode, armIdx, calls, tried, handlers, seen, outcome, pvars, rvars>>

\* func as it would be if the fold over the arms did not stop at a match
match_patterns_func_no_stop ==
  /\ pc = "eval" /\ stack = <<>>
  /\ tried' = Append(tried, ret)
  /\ IF ret
       THEN /\ handlers' = Append(handlers, armIdx)
            /\ seen' = ids
            /\ ids' = process_id_PatternPair(arms[armIdx], 0, CANCEL, ids)
            /\ outcome' = "matched"
       ELSE UNCHANGED <<handlers, seen, ids, outcome>>
  /\ armIdx' = armIdx + 1 /\ pc' = "arms"
  /\ UNCHANGED <<stack, ret, subject, arms, mode, calls, rootHist, last, pvars, rvars>>

\* the lambda func of match_patterns, after match_value has returned
match_patterns_func ==
  /\ pc = "eval" /\ stack = <<>>
  /\ tried' = Append(tried, ret)
  /\ IF ret
       THEN /\ handlers' = Append(handlers, armIdx)          \* a_pattern.execute()
            /\ seen' = ids
            /\ ids' = process_id_PatternPair(arms[armIdx], 0, CANCEL, ids)
            /\ outcome' = "matched" /\ pc' = "done"
            /\ UNCHANGED armIdx
       ELSE /\ armIdx' = armIdx + 1 /\ pc' = "arms"
            /\ UNCHANGED <<handlers, seen, ids, outcome>>
  /\ UNCHANGED <<stack, ret, subject, arms, mode, calls, rootHist, last, pvars, rvars>>

\* match_patterns as it would be without the throw of the expression branch
match_patterns_unmatched_returns ==
  /\ pc = "arms" /\ armIdx > Len(arms)
  /\ outcome' = "returned"
  /\ pc' = "done"
  /\ UNCHANGED <<ids, stack, ret, subject, arms, mode, armIdx, calls, tried, handlers, seen, rootHist, last, pvars, rvars>>

\* match_patterns as it would be if the statement branch threw as well
match_patterns_unmatched_throws ==
  /\ pc = "arms" /\ armIdx > Len(arms)
  /\ outcome' = "NoMatch"
  /\ pc' = "done"
  /\ UNCHANGED <<ids, stack, ret, subject, arms, mode, armIdx, calls, tried, handlers, seen, rootHist, last, pvars, rvars>>

\* match_patterns when the fold over the arms ended with matched == false
match_patterns_unmatched ==
  /\ pc = "arms" /\ armIdx > Len(arms)
  /\ outcome' = IF mode = "expr" THEN "NoMatch" ELSE "returned"
  /\ pc' = "done"
  /\ UNCHANGED <<ids, stack, ret, subject, arms, mode, armIdx, calls, tried, handlers, seen, rootHist, last, pvars, rvars>>

\* the call is over: its arguments and the history of the call go away,
\* the Id objects of the caller stay as the call left them
match_return ==
  /\ pc = "done"
  /\ pc' = "idle"
  /\ subject' = 0 /\ arms' = <<>> /\ mode' = "stmt" /\ armIdx' = 0
  /\ tried' = <<>> /\ handlers' = <<>> /\ outcome' = "none"
  /\ seen' = [n \in IdSet |-> EmptyBlock]
  /\ ret' = FALSE /\ rootHist' = <<>> /\ last' = NoLast
  /\ UNCHANGED <<ids, stack, calls, pvars, rvars>>

InitMatch ==
  /\ ids = [n \in IdSet |-> EmptyBlock]
  /\ stack = <<>> /\ ret = FALSE /\ pc = "idle"
  /\ subject = 0 /\ arms = <<>> /\ mode = "stmt" /\ armIdx = 0 /\ calls = 0
  /\ tried = <<>> /\ handlers = <<>> /\ outcome = "none"
  /\ seen = [n \in IdSet |-> EmptyBlock]
  /\ rootHist = <<>>
  /\ last = NoLast

NextMatch ==
  \/ match_patterns
  \/ PatternPair_match_value
  \/ match_pattern_leaf
  \/ match_pattern_Or
  \/ match_pattern_And
  \/ match_pattern_Not
  \/ match_pattern_App
  \/ match_pattern_PostCheck
  \/ match_patterns_func
  \/ match_patterns_unmatched
  \/ match_return

NextDs ==
  \/ match_patterns_Ds
  \/ PatternPair_match_value
  \/ match_pattern_leaf
  \/ match_pattern_Or
  \/ match_pattern_And
  \/ match_pattern_Not
  \/ match_pattern_App
  \/ match_pattern_PostCheck
  \/ match_pattern_Ds
  \/ match_pattern_OooBinder
  \/ match_patterns_func
  \/ match_patterns_unmatched
  \/ match_return

(***************************************************************************)
(*                          Part II : msgpack                              *)
(***************************************************************************)

\* ---- bounds -----------------------------------------------------------
MaxFields == 2     \* fields packed into / unpacked from one instance
MaxStrLen == 2     \* characters of a string, bytes of a binary blob
MaxRaw    == 2     \* bytes of a buffer that no Packer produced
MaxBlob   == 256   \* characters / bytes of the strings and blobs of SpecLen
MaxElems  == 17    \* elements of the arrays and maps of SpecLen

\* ---- error codes ------------------------------------------------------
NoError          == 0
OutOfRange       == 1    \* UnpackerError
IntegerOverflow  == 2
DataNotMatchType == 3
BadStdArraySize  == 4
LengthError      == 1    \* PackerError

\* ---- FormatConstants --------------------------------------------------
nil        == 192
false_bool == 194
true_bool  == 195
bin8       == 196
uint8      == 204
uint16     == 205
uint32     == 206
uint64     == 207
int8       == 208
int16      == 209
int32      == 210
int64      == 211
str8       == 217
array16    == 220
array32    == 221
map16      == 222
map32      == 223

\* ---- bytes --------------------------------------------------------------
\* Integers and sizes are big-endian byte sequences of the width of their
\* C++ type, so that 64-bit values keep their width.
Byte == 0..255
Fill(b, n) == [i \in 1..n |-> b]
ZeroExt(v, n) == Fill(0, n - Len(v)) \o v                 \* widening, unsigned
Low(v, n) == SubSeq(v, Len(v) - n + 1, Len(v))            \* narrowing cast
byte_at(v, k) == v[Len(v) - k]                            \* (v >> 8*k) & 0xFF
ToBytes(n, w) ==                                          \* n < 2^24
  [i \in 1..w |-> IF w - i > 2 THEN 0
                  ELSE (n \div (IF w - i = 2 THEN 65536 ELSE IF w - i = 1 THEN 256 ELSE 1)) % 256]

RECURSIVE BitAnd(_, _)
BitAnd(a, b) ==
  IF a = 0 \/ b = 0 THEN 0
  ELSE 2 * BitAnd(a \div 2, b \div 2) + (IF a % 2 = 1 /\ b % 2 = 1 THEN 1 ELSE 0)

RECURSIVE BitOr(_, _)
BitOr(a, b) ==
  IF a = 0 THEN b ELSE IF b = 0 THEN a
  ELSE 2 * BitOr(a \div 2, b \div 2) + (IF a % 2 = 1 \/ b % 2 = 1 THEN 1 ELSE 0)

\* a < b for two unsigned values of the same width
RECURSIVE LtBytes(_, _)
LtBytes(a, b) ==
  IF a = <<>> THEN FALSE
  ELSE IF Head(a) # Head(b) THEN Head(a) < Head(b)
  ELSE LtBytes(Tail(a), Tail(b))

\* std::numeric_limits<uintN_t>::max() as size_t
U8Max  == ToBytes(255, 8)
U16Max == <<0, 0, 0, 0, 0, 0, 255, 255>>
U32Max == <<0, 0, 0, 0, 255, 255, 255, 255>>

SetMax(S) == CHOOSE m \in S : \A n \in S : n <= m

\* ---- types and values ---------------------------------------------------
\* A type is a record [t, w, s, sub]; a value is a record [size, elems, sub]:
\*   int    : elems = the w bytes of the integer
\*   bool   : elems = <<0>> or <<1>>
\*   nil    : nothing
\*   str/bin: size = size() as size_t, elems = the characters / bytes
\*   vec/arr: size = size(), sub = the elements     (std::vector, std::array)
\*   map    : size = size(), sub = key, value, key, value, ...
\*   obj    : sub = the fields of a user aggregate (a type with pack())
Ty(t, w, s, sub) == [t |-> t, w |-> w, s |-> s, sub |-> sub]
IntT(w, s)  == Ty("int", w, s, <<>>)
BoolT       == Ty("bool", 1, FALSE, <<>>)
NilT        == Ty("nil", 0, FALSE, <<>>)
StrT        == Ty("str", 0, FALSE, <<>>)
BinT        == Ty("bin", 0, FALSE, <<>>)
VecT(e)     == Ty("vec", 0, FALSE, <<e>>)
ArrT(e, n)  == Ty("arr", n, FALSE, <<e>>)
MapT(k, v)  == Ty("map", 0, FALSE, <<k, v>>)
ObjT(fs)    == Ty("obj", 0, FALSE, fs)

NoSize == Fill(0, 8)
Val(size, elems, sub) == [size |-> size, elems |-> elems, sub |-> sub]
IntV(bytes)  == Val(NoSize, bytes, <<>>)
BoolV(b)     == Val(NoSize, <<IF b THEN 1 ELSE 0>>, <<>>)
NilV         == Val(NoSize, <<>>, <<>>)
BytesV(bs)   == Val(ToBytes(Len(bs), 8), bs, <<>>)           \* string, binary
SeqV(vs)     == Val(ToBytes(Len(vs), 8), <<>>, vs)           \* vector, array
MapV(vs)     == Val(ToBytes(Len(vs) \div 2, 8), <<>>, vs)    \* map: k1, v1, k2, v2, ..
ObjV(vs)     == Val(NoSize, <<>>, vs)
\* a string or container of which only size() matters: the Packer refuses it
\* before it looks at an element
HugeV(size)  == Val(size, <<>>, <<>>)

\* T{} : the value-initialised object the unpack functions start from
RECURSIVE DefaultV(_)
DefaultV(T) ==
  CASE T.t = "int"  -> IntV(Fill(0, T.w))
    [] T.t = "bool" -> BoolV(FALSE)
    [] T.t = "arr"  -> SeqV([i \in 1..T.w |-> DefaultV(T.sub[1])])
    [] T.t = "obj"  -> ObjV([i \in 1..Len(T.sub) |-> DefaultV(T.sub[i])])
    [] T.t \in {"str", "bin"} -> BytesV(<<>>)
    [] T.t \in {"vec", "map"} -> SeqV(<<>>)
    [] OTHER -> NilV

\* ---- Packer -------------------------------------------------------------
NewPacker == [buf |-> <<>>, ec |-> NoError]

emplace_back(p, bytes) == [p EXCEPT !.buf = @ \o bytes]

\* Packer::pack_type(const T&) for MsgPackIntegral T
pack_type_integral(p, T, a_value) ==
  IF p.ec # NoError THEN p
  ELSE
    LET l_value  == ZeroExt(a_value.elems, 8)
        nonzero  == {n \in 2..8 : byte_at(l_value, n - 1) # 0}
        l_nbytes0 == IF nonzero = {} THEN 1 ELSE SetMax(nonzero)
        low      == byte_at(l_value, 0)                     \* uint8_t(a_value)
        fixint   == BitAnd(low, 128) = 0 \/ BitAnd(low, 224) = 224
        l_nbytes == IF l_nbytes0 > 4 THEN 8
                    ELSE IF l_nbytes0 > 2 THEN 4
                    ELSE IF l_nbytes0 > 1 THEN 2
                    ELSE IF fixint THEN 0 ELSE 1
        l_type   == IF l_nbytes0 > 4 THEN (IF T.s THEN int64 ELSE uint64)
                    ELSE IF l_nbytes0 > 2 THEN (IF T.s THEN int32 ELSE uint32)
                    ELSE IF l_nbytes0 > 1 THEN (IF T.s THEN int16 ELSE uint16)
                    ELSE IF fixint THEN 0
                    ELSE (IF T.s THEN int8 ELSE uint8)
    IN emplace_back(p, <<IF l_type > 0 THEN l_type ELSE low>>
                       \o [i \in 1..l_nbytes |-> byte_at(l_value, l_nbytes - i)])

\* Packer::pack_type(const bool&)
pack_type_bool(p, a_value) ==
  IF p.ec # NoError THEN p
  ELSE emplace_back(p, <<IF a_value.elems[1] = 1 THEN true_bool ELSE false_bool>>)

\* Packer::pack_type(const std::nullptr_t&)
pack_type_nil(p) ==
  IF p.ec # NoError THEN p ELSE emplace_back(p, <<nil>>)

\* Packer::pack_type(const T&) for MsgPackStringOrBinary T
pack_type_string(p, T, a_value) ==
  IF p.ec # NoError THEN p
  ELSE
    LET size   == a_value.size
        l_type == IF T.t = "str" THEN str8 ELSE bin8
        body   == a_value.elems
    IN IF T.t = "str" /\ LtBytes(size, ToBytes(32, 8))
         THEN emplace_back(p, <<BitOr(byte_at(size, 0), 160)>> \o body)
       ELSE IF LtBytes(size, U8Max)
         THEN emplace_back(p, <<l_type, byte_at(size, 0)>> \o body)
       ELSE IF LtBytes(size, U16Max)
         THEN emplace_back(p, <<l_type + 1, byte_at(size, 1), byte_at(size, 0)>> \o body)
       ELSE IF LtBytes(size, U32Max)
         THEN emplace_back(p, <<l_type + 2, byte_at(size, 3), byte_at(size, 2),
                                byte_at(size, 1), byte_at(size, 0)>> \o body)
       ELSE [p EXCEPT !.ec = LengthError]

RECURSIVE pack_type(_, _, _)
RECURSIVE pack_each(_, _, _, _, _)

\* the loop  for (el : a_value) pack_type(el)  and the fold of a pack() method;
\* Ts repeats when it is shorter than vs (element type, or key and value type)
pack_each(p, Ts, vs, lo, hi) ==
  IF lo > hi THEN p
  ELSE IF lo = hi THEN pack_type(p, Ts[((lo - 1) % Len(Ts)) + 1], vs[lo])
  ELSE LET mid == (lo + hi) \div 2
           q   == pack_each(p, Ts, vs, lo, mid)
       IN IF q.ec # NoError THEN q      \* every later pack_type returns at once
          ELSE pack_each(q, Ts, vs, mid + 1, hi)

\* Packer::pack_type(const T&) for MsgPackArrayOrMap T
pack_type_array(p, T, a_value) ==
  IF p.ec # NoError THEN p
  ELSE
    LET isMap  == T.t = "map"
        size   == a_value.size
        l_type == IF isMap THEN map16 ELSE array16
        l_mask == IF LtBytes(size, ToBytes(16, 8)) THEN (IF isMap THEN 128 ELSE 144) ELSE 0
        sz(k)  == BitOr(byte_at(size, k), BitAnd(l_mask, 255))
        head   == IF LtBytes(size, ToBytes(16, 8)) THEN <<sz(0)>>
                  ELSE IF LtBytes(size, U16Max) THEN <<l_type, sz(1), sz(0)>>
                  ELSE IF LtBytes(size, U32Max) THEN <<l_type + 1, sz(3), sz(2), sz(1), sz(0)>>
                  ELSE <<>>
    IN IF head = <<>> THEN [p EXCEPT !.ec = LengthError]
       ELSE pack_each(emplace_back(p, head), T.sub, a_value.sub, 1, Len(a_value.sub))

\* Packer::pack_type(const T&) for a user aggregate: the fields go into a
\* Packer of their own, whose bytes are packed as a binary blob
pack_type_object(p, T, a_value) ==
  IF p.ec # NoError THEN p
  ELSE LET recursive_packer == pack_each(NewPacker, T.sub, a_value.sub, 1, Len(a_value.sub))
       IN pack_type_string(p, BinT, BytesV(recursive_packer.buf))

\* overload resolution of Packer::pack_type
pack_type(p, T, a_value) ==
  CASE T.t = "int"  -> pack_type_integral(p, T, a_value)
    [] T.t = "bool" -> pack_type_bool(p, a_value)
    [] T.t = "nil"  -> pack_type_nil(p)
    [] T.t \in {"str", "bin"} -> pack_type_string(p, T, a_value)
    [] T.t \in {"vec", "arr", "map"} -> pack_type_array(p, T, a_value)
    [] T.t = "obj"  -> pack_type_object(p, T, a_value)

\* ---- Unpacker -----------------------------------------------------------
\* pos is m_begin - start; the buffer ends at Len(data).  rd is history: the
\* positions whose byte was read (-1: a nested Unpacker read outside its own
\* buffer).
NewUnpacker(data) == [data |-> data, pos |-> 0, ec |-> NoError, rd |-> {}]

\* variant: the bounds test admits the position one past the last byte
current_byte_off_by_one(u) ==
  IF u.pos <= Len(u.data)
    THEN [b |-> IF u.pos < Len(u.data) THEN u.data[u.pos + 1] ELSE 0,
          u |-> [u EXCEPT !.rd = @ \cup {u.pos}]]
    ELSE [b |-> 0, u |-> [u EXCEPT !.ec = OutOfRange]]

\* Unpacker::current_byte
current_byte(u) ==
  IF u.pos < Len(u.data)
    THEN [b |-> u.data[u.pos + 1], u |-> [u EXCEPT !.rd = @ \cup {u.pos}]]
    ELSE [b |-> 0, u |-> [u EXCEPT !.ec = OutOfRange]]

\* Unpacker::next
next(u, bytes) ==
  IF Len(u.data) - u.pos >= 0
    THEN [u EXCEPT !.pos = @ + bytes]
    ELSE [u EXCEPT !.ec = OutOfRange]

\* variant: the bytes are assembled least significant first
RECURSIVE read_bytes_little_endian(_, _)
read_bytes_little_endian(u, n) ==
  IF n = 0 THEN [u |-> u, bytes |-> <<>>]
  ELSE LET c == current_byte(u)
           r == read_bytes_little_endian(next(c.u, 1), n - 1)
       IN [u |-> r.u, bytes |-> r.bytes \o <<c.b>>]

\* the loop  for (i = l_nbytes; i > 0; --i) { ... current_byte() ...; next(); }
RECURSIVE read_bytes(_, _)
read_bytes(u, n) ==
  IF n = 0 THEN [u |-> u, bytes |-> <<>>]
  ELSE LET c == current_byte(u)
           r == read_bytes(next(c.u, 1), n - 1)
       IN [u |-> r.u, bytes |-> <<c.b>> \o r.bytes]

\* a uint32_t length as a number; lengths of 65536 and more all count as
\* LenCap, which is more than any buffer of the model holds
LenCap == 256 * 256
SizeNum(bytes) ==
  LET b == ZeroExt(bytes, 4)
  IN IF b[1] # 0 \/ b[2] # 0 THEN LenCap ELSE 256 * b[3] + b[4]

IntTags == {int64, uint64, int32, uint32, int16, uint16, int8, uint8}
TagWidth(tag) ==
  CASE tag \in {int64, uint64} -> 8
    [] tag \in {int32, uint32} -> 4
    [] tag \in {int16, uint16} -> 2
    [] tag \in {int8, uint8}   -> 1
    [] OTHER -> 0

\* Unpacker::unpack_type(T&) for MsgPackIntegral T
unpack_type_integral(u, T, cur) ==
  IF u.ec # NoError THEN [u |-> u, v |-> cur]
  ELSE
    LET c        == current_byte(u)
        l_byte   == c.b
        tagw     == TagWidth(l_byte)
        overflow == tagw > 0 /\ T.w < tagw                  \* is_overflow
        fixint   == BitAnd(l_byte, 128) = 0 \/ BitAnd(l_byte, 224) = 224
        l_nbytes == IF tagw > 0 /\ ~overflow THEN tagw ELSE 0
        u1       == IF tagw > 0
                      THEN (IF overflow THEN [c.u EXCEPT !.ec = IntegerOverflow] ELSE c.u)
                      ELSE (IF fixint THEN c.u ELSE [c.u EXCEPT !.ec = DataNotMatchType])
        v1       == IF tagw = 0 /\ fixint THEN IntV(ZeroExt(<<l_byte>>, T.w)) ELSE cur
        u2       == next(u1, 1)
        r        == read_bytes(u2, l_nbytes)
    IN IF l_nbytes > 0
         THEN [u |-> r.u, v |-> IntV(Low(ZeroExt(r.bytes, 8), T.w))]
         ELSE [u |-> u2, v |-> v1]

\* Unpacker::unpack_type(bool&)
unpack_type_bool(u, cur) ==
  IF u.ec # NoError THEN [u |-> u, v |-> cur]
  ELSE LET c == current_byte(u)
       IN [u |-> next(c.u, 1), v |-> BoolV(c.b # false_bool)]

\* variant: without the test of ec on entry
unpack_type_nil_unguarded(u, cur) ==
  [u |-> next(u, 1), v |-> cur]

\* Unpacker::unpack_type(std::nullptr_t&)
unpack_type_nil(u, cur) ==
  IF u.ec # NoError THEN [u |-> u, v |-> cur]
  ELSE [u |-> next(u, 1), v |-> cur]

\* the lambda computing l_size in the string/binary and array/map overloads:
\* tags lists the tags of the 32-, 16- and 8-bit length forms (0: no such
\* form) and mask keeps the length bits of the fix form
unpack_size(u, tags, mask) ==
  LET c        == current_byte(u)
      l_nbytes == IF c.b = tags[1] \/ c.b = tags[2] THEN 4
                  ELSE IF c.b = tags[3] \/ c.b = tags[4] THEN 2
                  ELSE IF c.b = tags[5] \/ c.b = tags[6] THEN 1
                  ELSE 0
  IN IF l_nbytes > 0
       THEN LET r == read_bytes(next(c.u, 1), l_nbytes)
            IN [u |-> r.u, l_sz |-> r.bytes]
       ELSE LET c2 == current_byte(c.u)
            IN [u |-> next(c2.u, 1), l_sz |-> <<BitAnd(c2.b, mask)>>]

\* Unpacker::unpack_type(T&) for MsgPackStringOrBinary T
unpack_type_string(u, T, cur) ==
  IF u.ec # NoError THEN [u |-> u, v |-> cur]
  ELSE
    LET s      == unpack_size(u, <<str8 + 2, bin8 + 2, str8 + 1, bin8 + 1, str8, bin8>>, 31)
        l_size == SizeNum(s.l_sz)
        u1     == s.u
    IN IF u1.pos + l_size <= Len(u1.data)
         THEN [u |-> next([u1 EXCEPT !.rd = @ \cup (u1.pos .. u1.pos + l_size - 1)], l_size),
               v |-> BytesV(SubSeq(u1.data, u1.pos + 1, u1.pos + l_size))]
         ELSE [u |-> [u1 EXCEPT !.ec = OutOfRange], v |-> cur]

RECURSIVE unpack_type(_, _, _)
RECURSIVE unpack_each(_, _, _, _)
RECURSIVE unpack_elements(_, _, _, _)

\* the fold of a pack() method over the fields of an aggregate
unpack_each(u, Ts, curs, i) ==
  IF i > Len(Ts) THEN [u |-> u, vs |-> curs]
  ELSE LET r == unpack_type(u, Ts[i], curs[i])
       IN unpack_each(r.u, Ts, [curs EXCEPT ![i] = r.v], i + 1)

\* the loop  for (i = 0; i < l_size; i++)  of the array/map overload, for
\* the n elements (keys and values) still to come.  Once ec is set every
\* further unpack_type returns at once and the loop stores value-initialised
\* elements: the model keeps the elements up to the one the error arose in.
\* The elements i .. i + n - 1 are taken by halves, which is the same
\* left-to-right order.
unpack_elements(u, Ts, n, i) ==
  IF n = 0 \/ u.ec # NoError THEN [u |-> u, vs |-> <<>>]
  ELSE IF n = 1
    THEN LET T == Ts[((i - 1) % Len(Ts)) + 1]
             r == unpack_type(u, T, DefaultV(T))
         IN [u |-> r.u, vs |-> <<r.v>>]
  ELSE LET h == n \div 2
           a == unpack_elements(u, Ts, h, i)
           b == unpack_elements(a.u, Ts, n - h, i + h)
       IN [u |-> b.u, vs |-> a.vs \o b.vs]

\* Unpacker::unpack_type(T&) for MsgPackArrayOrMap T
unpack_type_array(u, T, cur) ==
  IF u.ec # NoError THEN [u |-> u, v |-> cur]
  ELSE
    LET s      == unpack_size(u, <<array32, map32, array16, map16, 0, 0>>, 15)
        l_size == SizeNum(s.l_sz)
        per    == IF T.t = "map" THEN 2 ELSE 1
        r      == unpack_elements(s.u, T.sub, per * l_size, 1)
        \* a map: insert_or_assign keeps one entry per key; the iterations
        \* after an error all assign the value-initialised key
        whole  == IF Len(r.vs) % 2 = 1 THEN Append(r.vs, DefaultV(T.sub[2])) ELSE r.vs
        pairs  == IF Len(whole) < 2 * l_size
                    THEN whole \o <<DefaultV(T.sub[1]), DefaultV(T.sub[2])>> ELSE whole
        keys   == {pairs[2 * i - 1] : i \in 1..(Len(pairs) \div 2)}
    IN IF T.t = "arr" /\ T.w # l_size
         THEN [u |-> [s.u EXCEPT !.ec = BadStdArraySize], v |-> cur]
       ELSE IF T.t = "arr"
         THEN [u |-> r.u,
               v |-> SeqV([i \in 1..T.w |-> IF i <= Len(r.vs) THEN r.vs[i]
                                                              ELSE DefaultV(T.sub[1])])]
       ELSE IF T.t = "map"
         THEN [u |-> r.u, v |-> Val(ToBytes(Cardinality(keys), 8), <<>>, cur.sub \o r.vs)]
       ELSE [u |-> r.u,
             v |-> Val(ZeroExt(s.l_sz, 8), <<>>, cur.sub \o r.vs)]

\* Unpacker::unpack_type(T&) for a user aggregate
unpack_type_object(u, T, cur) ==
  IF u.ec # NoError THEN [u |-> u, v |-> cur]
  ELSE
    LET d  == unpack_type_string(u, BinT, BytesV(<<>>))     \* recursive_data
        ru == NewUnpacker(d.v.elems)                         \* recursive_unpacker
        r  == unpack_each(ru, T.sub, cur.sub, 1)
        bad == \E q \in r.u.rd : q < 0 \/ q >= Len(ru.data)
    IN [u |-> [d.u EXCEPT !.ec = r.u.ec,
                          !.rd = @ \cup (IF bad THEN {-1} ELSE {})],
        v |-> ObjV(r.vs)]

\* overload resolution of Unpacker::unpack_type
unpack_type(u, T, cur) ==
  CASE T.t = "int"  -> unpack_type_integral(u, T, cur)
    [] T.t = "bool" -> unpack_type_bool(u, cur)
    [] T.t = "nil"  -> unpack_type_nil(u, cur)
    [] T.t \in {"str", "bin"} -> unpack_type_string(u, T, cur)
    [] T.t \in {"vec", "arr", "map"} -> unpack_type_array(u, T, cur)
    [] T.t = "obj"  -> unpack_type_object(u, T, cur)

vars == <<mvars, pvars, rvars>>

\* ---- the inputs the model draws from ------------------------------------
Field(T, v) == [ty |-> T, val |-> v]

IntTypes == {IntT(w, s) : w \in {1, 2, 4, 8}, s \in BOOLEAN}

\* bytes at the borders of the fixint ranges, and a tag byte
SampleBytes == {0, 1, 127, 128, 204, 224, 255}
Tails == {<<>>} \cup {<<a>> : a \in SampleBytes}
         \cup {<<a, b>> : a \in SampleBytes, b \in SampleBytes}

\* integers of w bytes: every one-byte value; for wider types one or two
\* sample bytes at any position, the other bytes all 0x00 or all 0xFF
IntValues(w) ==
  IF w = 1 THEN {<<b>> : b \in Byte}
  ELSE {Fill(p, a) \o t \o Fill(q, w - a - Len(t)) :
          p \in {0, 255}, q \in {0, 255},
          t \in {x \in Tails : Len(x) <= w}, a \in 0..w} \ {<<>>}

IntInputs ==
  UNION {{<<Field(T, IntV(v))>> :
            v \in {x \in IntValues(T.w) : Len(x) = T.w}} : T \in IntTypes}

SizeTooBig == {U32Max, <<0, 0, 0, 1, 0, 0, 0, 0>>}        \* 2^32 - 1, 2^32

RECURSIVE SeqsUpTo(_, _)
SeqsUpTo(S, n) ==
  IF n = 0 THEN {<<>>}
  ELSE SeqsUpTo(S, n - 1)
       \cup {Append(l, x) : l \in {m \in SeqsUpTo(S, n - 1) : Len(m) = n - 1}, x \in S}

U8T  == IntT(1, FALSE)
U16T == IntT(2, FALSE)
PairObjT == ObjT(<<U8T, StrT>>)
NilObjT  == ObjT(<<NilT>>)

FirstFields ==
  {Field(IntT(1, TRUE), IntV(<<255>>)), Field(U8T, IntV(<<200>>)),
   Field(IntT(2, TRUE), IntV(<<1, 0>>)), Field(IntT(4, FALSE), IntV(<<0, 1, 0, 0>>)),
   Field(IntT(8, TRUE), IntV(Fill(255, 8))),
   Field(BoolT, BoolV(TRUE)), Field(BoolT, BoolV(FALSE)), Field(NilT, NilV)}
  \cup {Field(StrT, BytesV(cs)) : cs \in SeqsUpTo({97}, MaxStrLen)}
  \cup {Field(BinT, BytesV(bs)) : bs \in SeqsUpTo({1}, MaxStrLen)}
  \cup {Field(StrT, HugeV(n)) : n \in SizeTooBig}
  \cup {Field(VecT(U16T), HugeV(n)) : n \in SizeTooBig}
  \cup {Field(VecT(U16T), SeqV(es)) : es \in {<<>>, <<IntV(<<0, 5>>)>>,
                                              <<IntV(<<0, 5>>), IntV(<<1, 0>>)>>}}
  \cup {Field(ArrT(U8T, 2), SeqV(<<IntV(<<1>>), IntV(<<2>>)>>)),
        Field(MapT(StrT, BoolT), MapV(<<BytesV(<<97>>), BoolV(TRUE)>>)),
        Field(PairObjT, ObjV(<<IntV(<<7>>), BytesV(<<97>>)>>)),
        Field(NilObjT, ObjV(<<NilV>>)),
        \* an aggregate whose string field is too long to be packed
        Field(ObjT(<<StrT>>), ObjV(<<HugeV(U32Max)>>))}

TailFields ==
  {Field(U8T, IntV(<<5>>)), Field(BoolT, BoolV(TRUE)), Field(StrT, BytesV(<<97>>))}

Streams ==
  {<<>>} \cup {<<f>> \o t : f \in FirstFields, t \in SeqsUpTo(TailFields, MaxFields - 1)}

\* types asked for besides the type that was packed at the same position
ProbeTypes     == {U8T, IntT(4, TRUE), BoolT, NilT, StrT, VecT(U16T), ArrT(U8T, 2), NilObjT}
TailProbeTypes == {U8T, NilT, StrT}

RawBytes   == {0, 145, 162, nil, true_bool, bin8, uint16, int8, str8, array16, map32, 255}
RawBuffers == SeqsUpTo(RawBytes, MaxRaw)

\* strings, blobs, arrays and maps of every length up to the bounds
RECURSIVE MapEntries(_)
MapEntries(n) ==
  IF n = 0 THEN <<>> ELSE MapEntries(n - 1) \o <<IntV(<<n>>), BoolV(TRUE)>>

LengthInputs ==
  {<<Field(StrT, BytesV(Fill(97, n)))>> : n \in 0..MaxBlob}
  \cup {<<Field(BinT, BytesV(Fill(1, n)))>> : n \in 0..MaxBlob}
  \cup {<<Field(VecT(U8T), SeqV(Fill(IntV(<<1>>), n)))>> : n \in 0..MaxElems}
  \cup {<<Field(MapT(U8T, BoolT), MapV(MapEntries(n)))>> : n \in 0..MaxElems}

\* ---- operations --------------------------------------------------------
\* packer(field) / Packer::process : the next field of the input is packed
Packer_process ==
  /\ upSrc = "none" /\ Len(sent) < Len(input)
  /\ LET f == input[Len(sent) + 1]
         p == pack_type(pk, f.ty, f.val)
     IN pk' = p /\ sent' = Append(sent, p)
  /\ UNCHANGED <<input, up, upSrc, got, mvars, rvars>>

\* Unpacker(a_start, a_size) on the bytes the Packer produced
Unpacker_full ==
  /\ upSrc = "none" /\ input # <<>> /\ Len(sent) = Len(input)
  /\ up' = NewUnpacker(pk.buf) /\ upSrc' = "full"
  /\ UNCHANGED <<input, pk, sent, got, mvars, rvars>>

\* Unpacker(a_start, a_size) on a strict prefix of the bytes the Packer produced
Unpacker_truncated ==
  /\ upSrc = "none" /\ input # <<>> /\ Len(sent) = Len(input)
  /\ \E k \in 0..(Len(pk.buf) - 1) :
       up' = NewUnpacker(SubSeq(pk.buf, 1, k))
  /\ upSrc' = "prefix"
  /\ UNCHANGED <<input, pk, sent, got, mvars, rvars>>

\* Unpacker(a_start, a_size) on bytes that no Packer produced
Unpacker_raw ==
  /\ upSrc = "none" /\ input = <<>>
  /\ \E d \in RawBuffers : up' = NewUnpacker(d)
  /\ upSrc' = "raw"
  /\ UNCHANGED <<input, pk, sent, got, mvars, rvars>>

\* unpacker(field) / Unpacker::process : one field is unpacked into a
\* value-initialised object of type T
unpack_field(T) ==
  LET r == unpack_type(up, T, DefaultV(T))
  IN /\ up' = r.u
     /\ got' = Append(got, [ty |-> T, val |-> r.v, ec |-> r.u.ec, pos |-> r.u.pos])

SameType(i) == IF i <= Len(input) THEN {input[i].ty} ELSE {}

Unpacker_process ==
  /\ upSrc # "none" /\ Len(got) < MaxFields
  /\ \E T \in SameType(Len(got) + 1)
             \cup (IF got = <<>> THEN ProbeTypes ELSE TailProbeTypes) :
       unpack_field(T)
  /\ UNCHANGED <<input, pk, sent, upSrc, mvars, rvars>>

\* the same, asking for an integer type
Unpacker_process_integral ==
  /\ upSrc # "none" /\ got = <<>>
  /\ \E T \in IntTypes : unpack_field(T)
  /\ UNCHANGED <<input, pk, sent, upSrc, mvars, rvars>>

\* the same, asking for the type that was packed
Unpacker_process_same ==
  /\ upSrc # "none" /\ got = <<>>
  /\ unpack_field(input[1].ty)
  /\ UNCHANGED <<input, pk, sent, upSrc, mvars, rvars>>

InitPackIdle ==
  /\ input = <<>> /\ pk = NewPacker /\ sent = <<>>
  /\ up = NewUnpacker(<<>>)
  /\ upSrc = "none" /\ got = <<>>

InitPack ==
  /\ InitMatch
  /\ InitReaderIdle
  /\ input \in Streams /\ pk = NewPacker /\ sent = <<>>
  /\ up = NewUnpacker(<<>>)
  /\ upSrc = "none" /\ got = <<>>

InitInt ==
  /\ InitMatch
  /\ InitReaderIdle
  /\ input \in IntInputs /\ pk = NewPacker /\ sent = <<>>
  /\ up = NewUnpacker(<<>>)
  /\ upSrc = "none" /\ got = <<>>

NextPack ==
  \/ Packer_process
  \/ Unpacker_full
  \/ Unpacker_truncated
  \/ Unpacker_raw
  \/ Unpacker_process

InitLen ==
  /\ InitMatch
  /\ InitReaderIdle
  /\ input \in LengthInputs /\ pk = NewPacker /\ sent = <<>>
  /\ up = NewUnpacker(<<>>)
  /\ upSrc = "none" /\ got = <<>>

NextLen ==
  \/ Packer_process
  \/ Unpacker_full
  \/ Unpacker_process_same

NextInt ==
  \/ Packer_process
  \/ Unpacker_full
  \/ Unpacker_truncated
  \/ Unpacker_process_integral

Init == InitMatch /\ InitPackIdle /\ InitReaderIdle

SpecPack == InitPack /\ [][NextPack]_vars

SpecInt == InitInt /\ [][NextInt]_vars

SpecLen == InitLen /\ [][NextLen]_vars

SpecMatch == Init /\ [][NextMatch]_vars

SpecDs == Init /\ [][NextDs]_vars

(***************************************************************************)
(*                      Part III : mio::StringReader                       *)
(***************************************************************************)

\* ---- bounds -----------------------------------------------------------
MaxFile    == 5    \* bytes of the mapped file
MaxThreads == 3    \* NumThreads of async_getline

LF == 10           \* '\n'
Chars == {LF, 97}

\* positions are offsets from m_mmap.begin(); the byte at offset q is file[q + 1]

\* fast_find<'\n'>(a_begin, a_end)
fast_find(a_begin, a_end) ==
  LET hits == {q \in a_begin..(a_end - 1) : file[q + 1] = LF}
  IN IF hits = {} THEN a_end ELSE CHOOSE q \in hits : \A r \in hits : q <= r

\* find_end<'\n'>(a_begin, a_size)
find_end(a_begin, a_size) ==
  LET hits == {q \in a_begin..(a_begin + a_size - 1) : file[q + 1] = LF}
  IN IF hits = {} THEN a_begin ELSE SetMax(hits) + 1

\* StringReader::mmap_partitions
mmap_partitions(a_numparts) ==
  LET l_partition_size == Len(file) \div a_numparts
      RECURSIVE loop(_, _, _)
      loop(i, l_begin, l_end) ==
        IF i = a_numparts THEN <<>>
        ELSE <<[first |-> l_begin, second |-> l_end]>> \o
             (IF i < a_numparts - 1
                THEN loop(i + 1, l_end,
                          IF i = a_numparts - 2 THEN Len(file)
                          ELSE find_end(l_end, l_partition_size))
                ELSE loop(i + 1, l_begin, l_end))
  IN loop(0, 0, find_end(0, l_partition_size))

\* StringReader::async_getline<NumThreads>, up to the futures: one
\* async_getline_impl(i, p.first, p.second, a_callback) per partition, each
\* at the head of its loop
async_getline ==
  /\ file # <<>> /\ parts = <<>>
  /\ \E NumThreads \in 2..MaxThreads :
       LET ps == mmap_partitions(NumThreads)
       IN /\ parts' = ps
          /\ workers' = [i \in 1..NumThreads |->
                           [l_begin   |-> ps[i].first,
                            l_find    |-> fast_find(ps[i].first, ps[i].second),
                            l_counter |-> 0,
                            st        |-> "run"]]
  /\ UNCHANGED <<file, log, loaded, mvars, pvars>>

\* StringReader::async_getline_impl, one turn of the loop: the callback gets
\* the line [l_begin, l_find) and answers rc; a non-zero rc breaks the loop
\* and the worker returns
async_getline_impl_callback ==
  /\ \E i \in 1..Len(workers), rc \in {0, 1} :
       LET w     == workers[i]
           a_end == parts[i].second
       IN /\ w.st = "run" /\ w.l_find # a_end
          /\ log' = Append(log, [tid |-> i - 1, b |-> w.l_begin, e |-> w.l_find, rc |-> rc])
          /\ workers' = [workers EXCEPT ![i] =
               IF rc = 0
                 THEN [l_begin   |-> w.l_find + 1,
                       l_find    |-> fast_find(w.l_find + 1, a_end),
                       l_counter |-> w.l_counter + 1,
                       st        |-> "run"]
                 ELSE [w EXCEPT !.st = "done"]]
  /\ UNCHANGED <<file, parts, loaded, mvars, pvars>>

\* StringReader::async_getline_impl: l_find == a_end ends the loop and the
\* worker returns l_counter
async_getline_impl_return ==
  /\ \E i \in 1..Len(workers) :
       /\ workers[i].st = "run" /\ workers[i].l_find = parts[i].second
       /\ workers' = [workers EXCEPT ![i].st = "done"]
  /\ UNCHANGED <<file, parts, log, loaded, mvars, pvars>>

\* StringReader::async_getline, the std::accumulate over the futures
async_getline_return ==
  /\ loaded = -1 /\ workers # <<>>
  /\ \A i \in 1..Len(workers) : workers[i].st = "done"
  /\ LET RECURSIVE sum(_)
         sum(i) == IF i = 0 THEN 0 ELSE workers[i].l_counter + sum(i - 1)
     IN loaded' = sum(Len(workers))
  /\ UNCHANGED <<file, parts, workers, log, mvars, pvars>>

\* the files the reader maps: an empty file cannot be mapped
Files == SeqsUpTo(Chars, MaxFile) \ {<<>>}

InitReader ==
  /\ InitMatch /\ InitPackIdle
  /\ file \in Files
  /\ parts = <<>> /\ workers = <<>> /\ log = <<>> /\ loaded = -1

NextReader ==
  \/ async_getline
  \/ async_getline_impl_callback
  \/ async_getline_impl_return
  \/ async_getline_return

SpecReader == InitReader /\ [][NextReader]_vars

(***************************************************************************)
(*                      Part I : properties (matchit)                      *)
(***************************************************************************)

\* the Or on top of the stack has had its alternative number Top.i fail and
\* has another alternative to try
OrBetweenAlternatives ==
  /\ pc = "eval" /\ stack # <<>> /\ Top.pat.k = "or"
  /\ Top.i >= 1 /\ Top.i < Len(Top.pat.ps) /\ ~ret

\* C1: in every Or, at any depth, when an alternative has failed and the
\* next one is about to be matched, every identifier the failed alternative
\* bound is empty again.
C1_OrRollsBackFailedAlternative ==
  OrBetweenAlternatives =>
    \A n \in IdSet : Top.hist[Top.i][n] # NoVal => ~has_value(ids[n])

\* C2: when Or(A,B) succeeds through B, A having bound x and failed and B
\* having bound x to a different value, x holds B's value: when the Or is
\* about to return, and when the handler of an arm Or(A,B) runs.
OrIsolationCase(p, h, n) ==
  /\ p.k = "or" /\ Len(p.ps) = 2 /\ Len(h) = 2
  /\ h[1][n] # NoVal /\ h[2][n] # NoVal /\ h[1][n] # h[2][n]

C2_DisjunctionIsolation ==
  /\ (pc = "eval" /\ stack # <<>> /\ Top.i = 2 /\ ret) =>
       \A n \in IdSet : OrIsolationCase(Top.pat, Top.hist, n) =>
          has_value(ids[n]) /\ ids[n].val = Top.hist[2][n]
  /\ (pc = "done" /\ handlers # <<>>) =>
       \A n \in IdSet : OrIsolationCase(arms[handlers[1]], rootHist, n) =>
          has_value(seen[n]) /\ seen[n].val = rootHist[2][n]

\* the example of the claim: subject 10, or_(and_(x, never), app(_ / 2, x))
C2_Witness ==
  /\ pc = "done" /\ handlers = <<1>> /\ subject = 10
  /\ arms[1] = Or(<<And(<<Xp, F>>), App(HALVE, Xp)>>)
  /\ OrIsolationCase(arms[1], rootHist, X)
  /\ seen[X].val = 5

IdsOfArms == UNION {IdsOf(arms[j]) : j \in 1..Len(arms)}

\* C3: when a match call begins, every identifier used in its arms is empty.
C3_IdsEmptyAtCallStart ==
  (pc = "arms" /\ armIdx = 1) => \A n \in IdsOfArms : ~has_value(ids[n])

\* C4: when an arm's pattern has failed, every identifier of that pattern is
\* empty, with owning depth 0, before the next arm is tried.
C4_FailedArmCancelsIds ==
  (pc = "arms" /\ armIdx >= 2) =>
    \A n \in IdsOf(arms[armIdx - 1]) : ~has_value(ids[n]) /\ ids[n].depth = 0

\* a failed arm that had bound x below the top of its pattern
C4_Witness ==
  /\ pc = "arms" /\ armIdx = 2 /\ Len(arms) = 2
  /\ \E j \in 1..Len(rootHist) : rootHist[j][X] # NoVal
  /\ ~has_value(ids[X])

\* C5: arms are tried in the written order and the first match wins: the
\* arms before the one being tried have all failed; a handler that runs is
\* the handler of the first arm that matched, it is the only one, and no
\* later arm has been tried; without a match every arm was tried.
C5_FirstMatchWins ==
  /\ Len(handlers) <= 1
  /\ \A j \in 1..Len(tried) : tried[j] => (j = Len(tried) /\ handlers = <<j>>)
  /\ pc \in {"arms", "eval"} => (handlers = <<>> /\ Len(tried) = armIdx - 1)
  /\ handlers # <<>> => (pc = "done" /\ outcome = "matched"
                         /\ Len(tried) = handlers[1] /\ tried[handlers[1]])
  /\ (pc = "done" /\ handlers = <<>>) =>
        (Len(tried) = Len(arms) /\ outcome \in {"NoMatch", "returned"})

\* the second arm won after the first had failed
C5_Witness ==
  /\ pc = "done" /\ handlers = <<2>> /\ tried = <<FALSE, TRUE>>

\* ---- msgpack properties --------------------------------------------------

\* C6: once the error code of a Packer or of an Unpacker is set, every later
\* field operation on the same instance leaves it as it was: the serialized
\* bytes, the cursor and the error code do not change.
C6_StickyError ==
  /\ \A i \in 1..Len(sent) : \A j \in i..Len(sent) :
       sent[i].ec # NoError => sent[j] = sent[i]
  /\ \A i \in 1..Len(got) : \A j \in i..Len(got) :
       got[i].ec # NoError => got[j].ec = got[i].ec /\ got[j].pos = got[i].pos
  /\ (got # <<>> /\ got[Len(got)].ec # NoError) =>
       up.ec = got[Len(got)].ec /\ up.pos = got[Len(got)].pos

\* a Packer whose first field failed packed a second one, and an Unpacker
\* whose first field failed unpacked a second one
C6_Witness ==
  /\ Len(sent) >= 2 /\ sent[1].ec = LengthError
  /\ Len(got) >= 2 /\ got[1].ec # NoError

\* C7: a strict prefix of the bytes the Packer produced for an object,
\* unpacked into the same type, always ends with the error OutOfRange.
C7_TruncatedIsOutOfRange ==
  (/\ upSrc = "prefix" /\ pk.ec = NoError
   /\ Len(got) = Len(input)
   /\ \A i \in 1..Len(got) : got[i].ty = input[i].ty)
    => up.ec = OutOfRange

\* C8: the cursor of the Unpacker never moves beyond the end of the buffer.
C8_CursorWithinBuffer ==
  up.pos <= Len(up.data)

\* C9: the Unpacker never reads a byte outside the buffer it was given.
C9_ReadsInsideBuffer ==
  \A q \in up.rd : 0 <= q /\ q < Len(up.data)

\* a truncated buffer was read to its last byte and the next read was refused
C9_Witness ==
  /\ upSrc = "prefix" /\ up.ec = OutOfRange
  /\ up.data # <<>> /\ (Len(up.data) - 1) \in up.rd

\* C10: an integer of any of the eight integer types, packed and then
\* unpacked into the same type, comes back as the same value with no error.
C10_IntegerRoundTrip ==
  (/\ upSrc = "full" /\ Len(got) = 1 /\ got[1].ty = input[1].ty)
    => /\ got[1].val = input[1].val
       /\ got[1].ec = NoError
       /\ pk.ec = NoError

\* a negative 64-bit integer that needs the nine-byte form came back
C10_Witness ==
  /\ upSrc = "full" /\ Len(got) = 1
  /\ input[1].ty = IntT(8, TRUE) /\ got[1].ty = input[1].ty
  /\ input[1].val.elems[1] = 255 /\ Len(pk.buf) = 9
  /\ got[1].val = input[1].val

\* ---- the value an integer stands for, read off its bytes ------------------
\* v is the two's complement image of the value, T.w bytes, big-endian
IsNegative(T, v) == T.s /\ v[1] >= 128

\* the value fits the k low bytes read as an unsigned / as a signed number
FitsUnsigned(v, k) == \A i \in 1..(Len(v) - k) : v[i] = 0
FitsSigned(v, k) ==
  /\ \A i \in 1..(Len(v) - k) : v[i] = 255
  /\ v[Len(v) - k + 1] >= 128

\* the value lies in [-32, 127]
InFixintRange(T, v) ==
  IF IsNegative(T, v) THEN FitsSigned(v, 1) /\ v[Len(v)] >= 224
                      ELSE FitsUnsigned(v, 1) /\ v[Len(v)] < 128

\* payload bytes of the smallest tag class that represents the value
SmallestPayload(T, v) ==
  LET fits(k) == IF IsNegative(T, v) THEN FitsSigned(v, k) ELSE FitsUnsigned(v, k)
  IN CHOOSE k \in {1, 2, 4, 8} :
       /\ (k >= Len(v) \/ fits(k))
       /\ \A j \in {1, 2, 4, 8} : (j < k) => ~(j >= Len(v) \/ fits(j))

ShortestLength(T, v) ==
  IF InFixintRange(T, v) THEN 1 ELSE 1 + SmallestPayload(T, v)

IntegerPacked == Len(sent) = 1 /\ input[1].ty.t = "int" /\ pk.ec = NoError

\* C11: the bytes the Packer emits for an integer are as many as the
\* smallest tag class that can represent the value takes: one byte for a
\* fixint, else the tag and 1, 2, 4 or 8 payload bytes.
C11_ShortestEncoding ==
  IntegerPacked =>
    Len(pk.buf) = ShortestLength(input[1].ty, input[1].val.elems)

\* C12: the Packer emits the one-byte untagged form exactly for the values
\* in [-32, 127]; every other value is a tag byte followed by its
\* big-endian bytes.
C12_FixintExactlyInRange ==
  IntegerPacked =>
    LET T == input[1].ty
        v == input[1].val.elems
    IN /\ (Len(pk.buf) = 1) <=> InFixintRange(T, v)
       /\ Len(pk.buf) > 1 =>
            /\ pk.buf[1] \in IntTags
            /\ Len(pk.buf) = 1 + TagWidth(pk.buf[1])
            /\ Tail(pk.buf) = Low(ZeroExt(v, 8), TagWidth(pk.buf[1]))

SignedTags == {int8, int16, int32, int64}
SignExt(v, n) == Fill(IF v[1] >= 128 THEN 255 ELSE 0, n - Len(v)) \o v

\* C13: a payload that follows an int8/16/32/64 tag is sign-extended into
\* the requested integer type and one that follows a uint8/16/32/64 tag is
\* zero-extended, whenever the requested type is at least as wide.
C13_SignOrZeroExtension ==
  (/\ upSrc = "full" /\ Len(got) = 1 /\ got[1].ty.t = "int"
   /\ up.data[1] \in IntTags
   /\ TagWidth(up.data[1]) <= got[1].ty.w)
    => LET payload == SubSeq(up.data, 2, 1 + TagWidth(up.data[1]))
       IN got[1].val.elems = IF up.data[1] \in SignedTags
                               THEN SignExt(payload, got[1].ty.w)
                               ELSE ZeroExt(payload, got[1].ty.w)

\* the leading bytes that are a tag of the requested type
ValidTags(T) ==
  CASE T.t = "int"  -> IntTags \cup {b \in Byte : BitAnd(b, 128) = 0 \/ BitAnd(b, 224) = 224}
    [] T.t = "bool" -> {false_bool, true_bool}
    [] T.t = "nil"  -> {nil}
    [] T.t = "str"  -> {str8, str8 + 1, str8 + 2} \cup {b \in Byte : BitAnd(b, 224) = 160}
    [] T.t = "bin"  -> {bin8, bin8 + 1, bin8 + 2}
    [] T.t = "map"  -> {map16, map32} \cup {b \in Byte : BitAnd(b, 240) = 128}
    [] OTHER        -> {array16, array32} \cup {b \in Byte : BitAnd(b, 240) = 144}

PrimitiveKinds == {"int", "bool", "nil", "str", "bin", "vec", "arr", "map"}

\* C14: a primitive decode whose leading byte is not a tag of the requested
\* type sets DataNotMatchType.
C14_LeadingByteValidated ==
  (/\ Len(got) = 1 /\ up.data # <<>>
   /\ got[1].ty.t \in PrimitiveKinds
   /\ up.data[1] \notin ValidTags(got[1].ty))
    => got[1].ec = DataNotMatchType

\* the length form a header starts with: bytes of the length field that
\* follow the first byte (0: the length sits in the first byte itself)
LengthFieldBytes(b) ==
  CASE b \in {str8, bin8}                       -> 1
    [] b \in {str8 + 1, bin8 + 1, array16, map16} -> 2
    [] b \in {str8 + 2, bin8 + 2, array32, map32} -> 4
    [] OTHER                                      -> 0

\* number of characters, bytes, elements or entries of a packed field
LengthOf(f) ==
  CASE f.ty.t \in {"str", "bin"} -> Len(f.val.elems)
    [] f.ty.t = "map"            -> Len(f.val.sub) \div 2
    [] OTHER                     -> Len(f.val.sub)

\* the smallest length form whose range covers n
SmallestForm(T, n) ==
  CASE T.t = "str" /\ n < 32                -> 0
    [] T.t \in {"vec", "arr", "map"} /\ n < 16 -> 0
    [] T.t \in {"str", "bin"} /\ n <= 255   -> 1
    [] n <= 65535                           -> 2
    [] OTHER                                -> 4

\* C15: for a string, a binary blob, an array or a map the Packer chooses
\* the smallest length form that covers the length: the fix form below 32
\* (strings) or 16 (arrays, maps), the 8-bit form up to 255 (strings and
\* blobs), the 16-bit form up to 65535, the 32-bit form above.
C15_SmallestLengthForm ==
  (/\ Len(sent) = 1 /\ pk.ec = NoError
   /\ input[1].ty.t \in {"str", "bin", "vec", "arr", "map"})
    => LengthFieldBytes(pk.buf[1]) = SmallestForm(input[1].ty, LengthOf(input[1]))

\* ---- matchit properties, continued ----------------------------------------

\* a match_pattern call has just returned and confirmed its identifiers
JustConfirmed == last.proc = CONFIRM

\* C16 as stated: confirm(depth) sets the owning depth to depth whenever the
\* cell holds no value or its owning depth is greater than depth, and
\* leaves the owning depth unchanged otherwise.
C16_ConfirmWhenUnsetOrDeeper ==
  JustConfirmed =>
    \A n \in IdsOf(last.pat) :
      ids[n] = [last.before[n] EXCEPT
                  !.depth = IF ~has_value(last.before[n]) \/ @ > last.depth
                              THEN last.depth ELSE @]

\* C16, amended: confirm(depth) sets the owning depth to depth whenever the
\* owning depth is 0 or greater than depth, whether or not the cell holds a
\* value, and leaves the cell unchanged otherwise.
C16_ConfirmWhenZeroOrDeeper ==
  JustConfirmed =>
    \A n \in IdsOf(last.pat) :
      ids[n] = [last.before[n] EXCEPT
                  !.depth = IF @ = 0 \/ @ > last.depth THEN last.depth ELSE @]

\* a cell that holds a value and was never confirmed is confirmed below the
\* root of the arm: its owning depth becomes the depth of the pattern
C16_Witness ==
  /\ JustConfirmed /\ last.pat.k = "id" /\ last.depth > 0
  /\ has_value(last.before[X]) /\ last.before[X].depth = 0
  /\ ids[X].depth = last.depth

\* C17: match_value(subject) on a cell that holds a value returns whether
\* that value equals subject and leaves the cell as it is; on an empty cell
\* it binds subject and returns true.
C17_MatchValueComparesOrBinds ==
  (last.proc # -1 /\ last.pat.k = "id") =>
    LET b == last.pre[last.pat.a]
        a == last.before[last.pat.a]
    IN IF has_value(b)
         THEN last.res = (b.val = last.value) /\ a = b
         ELSE last.res /\ a = [b EXCEPT !.has = TRUE, !.val = last.value]

\* an identifier that holds 10 was matched against 5: false, cell unchanged
C17_Witness ==
  /\ last.proc # -1 /\ last.pat.k = "id"
  /\ has_value(last.pre[X]) /\ last.pre[X].val = 10 /\ last.value = 5
  /\ ~last.res /\ last.before[X] = last.pre[X]

\* C19: when Not(p) fails to match because p matched, every identifier that
\* p bound during that evaluation is empty as soon as Not(p) has returned.
C19_NotLeavesNoBinding ==
  (last.proc # -1 /\ last.pat.k = "not" /\ ~last.res) =>
    \A n \in IdSet : last.hist[1][n] # NoVal => ~has_value(ids[n])

\* the PostCheck of an arm has just returned
PostCheckReturned == last.proc # -1 /\ last.pat.k = "when"

\* C18: in an arm  p | when(pred)  the predicate is evaluated only after p
\* has matched and sees the identifiers p bound; when it returns false the
\* arm does not match and the identifiers bound by p are empty before the
\* next arm is tried.
C18_WhenChecksThenRollsBack ==
  PostCheckReturned =>
    /\ last.depth = 0
    /\ (last.pred # "none") <=> (last.cres = <<TRUE>>)
    /\ last.pred # "none" =>
         \A n \in IdSet : last.hist[1][n] # NoVal =>
           has_value(last.before[n]) /\ last.before[n].val = last.hist[1][n]
    /\ last.pred = "false" =>
         /\ ~last.res
         /\ \A n \in IdsOf(last.pat) : ~has_value(ids[n])
         /\ pc = "arms" => armIdx >= 2 /\ arms[armIdx - 1] = last.pat

\* p bound x, the predicate was false, and the next arm is about to be tried
\* with x empty
C18_Witness ==
  /\ PostCheckReturned /\ last.pred = "false"
  /\ last.hist[1][X] # NoVal
  /\ pc = "arms" /\ armIdx = 2 /\ armIdx <= Len(arms)
  /\ ~has_value(ids[X])

\* C20: And evaluates its sub-patterns left to right against the same
\* subject and stops at the first that fails: once a sub-pattern has
\* returned false no sub-pattern to its right is started.
C20_AndShortCircuits ==
  /\ \A j \in 1..Len(stack) :
       stack[j].pat.k = "and" =>
         /\ \A k \in 1..Len(stack[j].res) :
              ~stack[j].res[k] => Len(stack[j].hist) = k
         /\ j < Len(stack) =>
              /\ stack[j + 1].pat = stack[j].pat.ps[Len(stack[j].hist)]
              /\ stack[j + 1].value = stack[j].value
  /\ (last.proc # -1 /\ last.pat.k = "and") =>
       /\ Len(last.hist) = Len(last.cres)
       /\ \A k \in 1..Len(last.cres) : last.cres[k] <=> (last.res \/ k < Len(last.cres))
       /\ last.res => Len(last.cres) = Len(last.pat.ps)

\* And(never, app(..)) returned false after its first sub-pattern only
C20_Witness ==
  /\ last.proc # -1 /\ last.pat.k = "and" /\ ~last.res
  /\ Len(last.hist) = 1 /\ Len(last.pat.ps) = 2
  /\ last.pat.ps[2].k = "app"

\* ---- destructuring ------------------------------------------------------
\* a Ds with an OooBinder has just returned
DsReturned == last.pat.k = "ds"
RestIdx    == find_ooo_idx(last.pat.ps)
DsBinderReturned ==
  /\ DsReturned /\ RestIdx # 0
  /\ last.pat.ps[RestIdx].k = "ooobinder"

\* C21: when a Ds of n patterns with an OooBinder at index k (counted from
\* 0) has matched a subject of len >= n - 1 elements, the binder's
\* identifier holds the elements [k, len - (n - k - 1)) of the subject, in
\* order, and none when len = n - 1.
C21_RestBinderHoldsMiddle ==
  (DsBinderReturned /\ last.res /\ Len(last.value.elems) >= Len(last.pat.ps) - 1) =>
    LET n   == Len(last.pat.ps)
        len == Len(last.value.elems)
        k   == RestIdx - 1
        b   == ids[last.pat.ps[RestIdx].ps[1].a]
        to  == len - (n - k - 1)
    IN /\ b.has
       /\ b.val.elems = [i \in 1..(to - k) |-> last.value.elems[k + i]]
       /\ (len = n - 1 => b.val.elems = <<>>)

C21_Witness ==
  /\ DsBinderReturned /\ last.res
  /\ Len(last.pat.ps) = 3 /\ RestIdx = 2 /\ Len(last.value.elems) = 3
  /\ ids[SUB].val.elems = <<last.value.elems[2]>>

\* C22: a Ds without rest marker on a subject whose length is not its
\* arity, and a Ds with a rest marker on a subject shorter than its arity
\* minus one, does not match.
C22_LengthMismatchFails ==
  (DsReturned /\ (IF RestIdx = 0
                    THEN Len(last.value.elems) # Len(last.pat.ps)
                    ELSE Len(last.value.elems) < Len(last.pat.ps) - 1))
    => ~last.res

\* ---- the end of a match call ---------------------------------------------
NoArmMatched == Len(tried) = Len(arms) /\ \A k \in 1..Len(tried) : ~tried[k]

\* C23: a match call whose handlers return a value ends with NoMatch exactly
\* when no arm matched; otherwise the handler of the first arm that matched
\* has run, and no other.
C23_NoMatchIffNoArmMatches ==
  (pc = "done" /\ mode = "expr") =>
    /\ (outcome = "NoMatch") <=> NoArmMatched
    /\ ~NoArmMatched =>
         /\ outcome = "matched"
         /\ tried[Len(tried)] /\ \A k \in 1..(Len(tried) - 1) : ~tried[k]
         /\ handlers = <<Len(tried)>>

C23_Witness ==
  /\ pc = "done" /\ mode = "expr" /\ outcome = "NoMatch"
  /\ Len(arms) = 2 /\ tried = <<FALSE, FALSE>>

\* C24: a match call whose handlers return nothing and in which no arm
\* matched runs no handler, raises nothing and returns.
C24_StatementNoMatchReturns ==
  (pc = "done" /\ mode = "stmt" /\ NoArmMatched) =>
    outcome = "returned" /\ handlers = <<>>

C24_Witness ==
  /\ pc = "done" /\ mode = "stmt" /\ NoArmMatched
  /\ Len(arms) = 2 /\ outcome = "returned"

\* ---- match_pattern and process_id ---------------------------------------
\* C26: every match_pattern call that returns has run process_id on its own
\* pattern at its own depth, with Confirm when the pattern matched and with
\* Cancel otherwise: whenever a call returns to its caller, the identifiers
\* are what that process_id makes of them.
C26_EveryReturnProcessesIds ==
  [][(pc = "eval" /\ stack # <<>> /\ Len(stack') < Len(stack)) =>
       /\ last'.pat = Top.pat /\ last'.depth = Top.depth
       /\ last'.res = ret'
       /\ last'.proc = (IF ret' THEN CONFIRM ELSE CANCEL)
       /\ ids' = process_id(Top.pat, Top.depth, last'.proc, last'.before)]_vars

C26_Witness ==
  /\ last.pat.k = "ooobinder" /\ last.proc = CONFIRM /\ last.depth = 1
  /\ stack # <<>> /\ Top.pat.k = "ds" /\ Top.depth = 1
  /\ ids[SUB].has /\ ids[SUB].depth = 1

\* C27: the assertion of Id::Block::confirm holds: a confirm(depth) that
\* lowers the owning depth d of a cell finds d = depth + 1 (d = 0 is the
\* other way into that branch and d = depth does not enter it).
C27_ConfirmAssertionHolds ==
  (last.proc = CONFIRM) =>
    \A n \in IdsOf(last.pat) :
      last.before[n].depth > last.depth => last.before[n].depth = last.depth + 1

C27_Witness ==
  /\ last.proc = CONFIRM /\ last.pat.k = "ds" /\ last.depth = 1
  /\ SUB \in IdsOf(last.pat) /\ X \in IdsOf(last.pat)
  /\ last.before[X].depth = 2 /\ ids[X].depth = 1

\* ---- decoding a container --------------------------------------------------
\* C28: a vector or map decoded from a buffer never ends up with more
\* elements than the buffer has bytes.
C28_DecodedElementsBounded ==
  \A i \in 1..Len(got) :
    got[i].ty.t \in {"vec", "map"} =>
      ~LtBytes(ToBytes(Len(up.data), 8), got[i].val.size)

\* ---- packing a user aggregate ----------------------------------------------
\* the nested Packer of the aggregate packed as field i, after its fields
recursive_packer_of(i) ==
  pack_each(NewPacker, input[i].ty.sub, input[i].val.sub, 1, Len(input[i].val.sub))

\* C29: when the nested Packer of a user aggregate ends with an error code,
\* the Packer the aggregate was packed into has an error code as well.
C29_AggregateErrorReachesCaller ==
  \A i \in 1..Len(sent) :
    (input[i].ty.t = "obj" /\ recursive_packer_of(i).ec # NoError) =>
      sent[i].ec # NoError

\* ---- loading a file with several workers -------------------------------------
\* C25: after a callback invocation has returned a non-zero status no
\* callback is invoked again, by any worker: only the last invocation of a
\* loading process can have returned non-zero.
C25_NonZeroStopsEveryWorker ==
  \A k \in 1..Len(log) : log[k].rc # 0 => k = Len(log)

\* the lines of the file: a line starts at offset 0 or right after a
\* delimiter and runs up to the next delimiter or, for the last line, up to
\* the end of the file
Lines ==
  {[b |-> q, e |-> fast_find(q, Len(file))] :
     q \in {r \in 0..(Len(file) - 1) : r = 0 \/ file[r] = LF}}

Delivered(l) == {k \in 1..Len(log) : log[k].b = l.b /\ log[k].e = l.e}

\* C30: when async_getline has returned and every callback returned 0, each
\* line of the file was delivered exactly once and nothing else was; the
\* partitions are contiguous, start at the first byte and end at the last,
\* and each boundary between two partitions is the start of a line.
C30_EveryLineDeliveredOnce ==
  (loaded # -1 /\ \A k \in 1..Len(log) : log[k].rc = 0) =>
    /\ \A l \in Lines : Cardinality(Delivered(l)) = 1
    /\ \A k \in 1..Len(log) : [b |-> log[k].b, e |-> log[k].e] \in Lines
    /\ loaded = Cardinality(Lines)
    /\ parts[1].first = 0 /\ parts[Len(parts)].second = Len(file)
    /\ \A i \in 1..Len(parts) : parts[i].first <= parts[i].second
    /\ \A i \in 1..(Len(parts) - 1) :
         /\ parts[i].second = parts[i + 1].first
         /\ parts[i].second = 0 \/ file[parts[i].second] = LF
====
